---- MODULE Spec2Model ----
(***************************************************************************)
(* hmem viewer: the V2 bulk-read ("budgeted") view and the full view over  *)
(* one snapshot of a .hmem store.                                          *)
(*                                                                         *)
(* Modelling conventions                                                   *)
(*  - a timestamp (created_at) is an integer: 0 is the missing value ("" / *)
(*    NULL), d > 0 is the ISO timestamp of day d (all in one format, so    *)
(*    the string order the code sorts by is the order of the days), d < 0  *)
(*    is a text datetime.fromisoformat rejects (the snapshots drawn here   *)
(*    hold none, and its place in the string order is not modelled);       *)
(*  - a text (level_1, content) is its length in characters;               *)
(*  - the clock datetime.now() is the variable now, in whole days;         *)
(*  - a score access_count / log2(age_days + 2) is the pair                *)
(*    [num |-> access_count, base |-> age_days + 2]; two scores are        *)
(*    compared exactly: n1/log2(b1) > n2/log2(b2) iff b2^n1 > b1^n2.       *)
(***************************************************************************)
EXTENDS Integers, Sequences, FiniteSets, TLC

VARIABLES
    records,    \* rows of table memories with seq > 0, ORDER BY prefix, seq
    nodes,      \* rows of table memory_nodes, ORDER BY parent_id, seq
    override,   \* the bulkReadV2 object of hmem.config.json
    now,        \* the wall clock, in days
    v2_mode,    \* MemoryScreen.v2_mode
    sel,        \* result of the last compute_v2_selection (or scoring) call
    view        \* what the last rebuild_tree put on the screen

vars == <<records, nodes, override, now, v2_mode, sel, view>>

(***************************************************************************)
(* Bounds of the model                                                     *)
(***************************************************************************)
MaxRecords == 2
MaxNodes == 3

Prefixes == <<"L", "P">>
Dates == {1, 2}
AccessCounts == {0, 2, 3}
Flags == {[favorite |-> FALSE, obsolete |-> FALSE],
          [favorite |-> TRUE, obsolete |-> FALSE],
          [favorite |-> FALSE, obsolete |-> TRUE]}
CapValues == {0, 1}
Clock == {2, 3}

FirstDay == CHOOSE d \in Clock : \A e \in Clock : d <= e

None == [ran |-> FALSE]

(***************************************************************************)
(* Helpers                                                                 *)
(***************************************************************************)
Range(s) == {s[i] : i \in DOMAIN s}

Min(a, b) == IF a <= b THEN a ELSE b

Max(a, b) == IF a >= b THEN a ELSE b

Ids(s) == {s[i].id : i \in DOMAIN s}

\* s[:n] of Python for n >= 0; for n < 0 it drops the last -n items.
Slice(s, n) ==
    IF n >= 0 THEN SubSeq(s, 1, Min(n, Len(s)))
    ELSE SubSeq(s, 1, Max(Len(s) + n, 0))

\* A sort that keeps one item per key: of the items with equal keys only
\* the first survives.
sorted_desc_OnePerKey(s, gt) ==
    LET keep == {i \in DOMAIN s : \A j \in DOMAIN s : j < i => (gt[i][j] \/ gt[j][i])}
        pos == [i \in keep |-> Cardinality({j \in keep : gt[j][i]}) + 1]
    IN  [k \in 1..Cardinality(keep) |-> s[CHOOSE i \in keep : pos[i] = k]]

\* sorted(s, key=..., reverse=True): descending by key, and stable, so items
\* with equal keys keep the order they have in s.  gt[i][j]: key(s[i]) > key(s[j]).
sorted_desc(s, gt) ==
    LET n == Len(s)
        pos == [i \in 1..n |->
                   Cardinality({j \in 1..n : gt[j][i]
                                    \/ (~gt[i][j] /\ j < i)}) + 1]
    IN  [k \in 1..n |-> s[CHOOSE i \in 1..n : pos[i] = k]]

PrefixRank(p) == CHOOSE i \in DOMAIN Prefixes : Prefixes[i] = p

(***************************************************************************)
(* weighted_access_score                                                   *)
(***************************************************************************)
RECURSIVE Pow(_, _)
Pow(b, n) == IF n = 0 THEN 1 ELSE b * Pow(b, n - 1)

weighted_access_score(entry, clock) ==
    LET ac == entry.access_count
        created == entry.created_at
    IN  IF created = 0 \/ ac = 0 THEN [num |-> 0, base |-> 2]
        ELSE IF created < 0 THEN [num |-> ac, base |-> 2]
        ELSE [num |-> ac, base |-> Max(clock - created, 0) + 2]

ScoreGT(s1, s2) == Pow(s2.base, s1.num) > Pow(s1.base, s2.num)

\* sorted(s, key=weighted_access_score, reverse=True)
sorted_by_score(s, clock) ==
    sorted_desc(s, [i \in DOMAIN s |-> [j \in DOMAIN s |->
        ScoreGT(weighted_access_score(s[i], clock),
                weighted_access_score(s[j], clock))]])

\* sorted(s, key=lambda e: e["created_at"] or "", reverse=True)
sorted_by_created(s) ==
    sorted_desc(s, [i \in DOMAIN s |-> [j \in DOMAIN s |->
        s[i].created_at > s[j].created_at]])

(***************************************************************************)
(* Configuration                                                           *)
(***************************************************************************)
ConfigKeys == {"topAccessCount", "topNewestCount", "topObsoleteCount"}

DEFAULT_V2_CONFIG ==
    [topAccessCount |-> 3, topNewestCount |-> 5, topObsoleteCount |-> 3]

load_v2_config(ov) ==
    [k \in ConfigKeys |-> IF k \in DOMAIN ov THEN ov[k] ELSE DEFAULT_V2_CONFIG[k]]

(***************************************************************************)
(* load_all_data                                                           *)
(***************************************************************************)
Active(rows) == SelectSeq(rows, LAMBDA r : ~r.obsolete)

Obsolete(rows) == SelectSeq(rows, LAMBDA r : r.obsolete)

children_map(ns, pid) == SelectSeq(ns, LAMBDA n : n.parent_id = pid)

(***************************************************************************)
(* compute_v2_selection                                                    *)
(***************************************************************************)
\* One budget for all categories: every group is the whole list.
by_prefix_Shared(active, p) == active

by_prefix(active, p) == SelectSeq(active, LAMBDA e : e.prefix = p)

\* Records that were never accessed take part in the accessed channel too.
Accessed_All(s) == s

Accessed(s) == SelectSeq(s, LAMBDA e : e.access_count > 0)

\* The cap is taken one too small.
newest_OffByOne(entries, cfg) ==
    Slice(sorted_by_created(entries), cfg.topNewestCount - 1)

newest(entries, cfg) ==
    Slice(sorted_by_created(entries), cfg.topNewestCount)

most_accessed(entries, cfg, clock) ==
    Slice(sorted_by_score(Accessed(entries), clock), cfg.topAccessCount)

PrefixesOf(active) == {active[i].prefix : i \in DOMAIN active}

newest_ids(active, cfg) ==
    UNION {Ids(newest(by_prefix(active, p), cfg)) : p \in PrefixesOf(active)}

access_ids(active, cfg, clock) ==
    UNION {Ids(most_accessed(by_prefix(active, p), cfg, clock)) :
               p \in PrefixesOf(active)}

favorite_ids(active) == {e.id : e \in {x \in Range(active) : x.favorite}}

\* The most accessed records are marked promoted but not made visible.
compute_v2_selection_PromotedOnly(active, obsolete, cfg, clock) ==
    [expanded_ids |-> newest_ids(active, cfg) \cup favorite_ids(active),
     promoted_ids |-> access_ids(active, cfg, clock),
     visible_obsolete |->
         Slice(sorted_by_score(obsolete, clock), cfg.topObsoleteCount)]

\* Favorites get no pass: the loop over the favorites is missing.
compute_v2_selection_NoFavorites(active, obsolete, cfg, clock) ==
    [expanded_ids |-> newest_ids(active, cfg) \cup access_ids(active, cfg, clock),
     promoted_ids |-> access_ids(active, cfg, clock),
     visible_obsolete |->
         Slice(sorted_by_score(obsolete, clock), cfg.topObsoleteCount)]

\* The obsolete records are cut in store order, without ranking them.
compute_v2_selection_ObsoleteUnsorted(active, obsolete, cfg, clock) ==
    LET promoted_ids == access_ids(active, cfg, clock)
    IN  [expanded_ids |-> newest_ids(active, cfg) \cup promoted_ids \cup favorite_ids(active),
         promoted_ids |-> promoted_ids,
         visible_obsolete |-> Slice(obsolete, cfg.topObsoleteCount)]

compute_v2_selection(active, obsolete, cfg, clock) ==
    LET promoted_ids == access_ids(active, cfg, clock)
    IN  [expanded_ids |-> newest_ids(active, cfg) \cup promoted_ids
                              \cup favorite_ids(active),
         promoted_ids |-> promoted_ids,
         visible_obsolete |->
             Slice(sorted_by_score(obsolete, clock), cfg.topObsoleteCount)]

(***************************************************************************)
(* Token accounting                                                        *)
(***************************************************************************)
TOKEN_CHARS == 4

\* v2_config = None: the full view passes no configuration.
NoConfig == <<>>

\* The estimate rounds up: every non-empty text weighs at least one token.
estimate_tokens_RoundUp(text) == (text + TOKEN_CHARS - 1) \div TOKEN_CHARS

estimate_tokens(text) == text \div TOKEN_CHARS

RECURSIVE SumTokens(_)
SumTokens(s) == IF s = <<>> THEN 0 ELSE s[1] + SumTokens(Tail(s))

\* The total counts the records and forgets the nodes.
count_all_tokens_RecordsOnly(active, obsolete, ns) ==
    SumTokens([i \in DOMAIN (active \o obsolete) |->
                  estimate_tokens((active \o obsolete)[i].level_1)])

count_all_tokens(active, obsolete, ns) ==
    SumTokens([i \in DOMAIN (active \o obsolete) |->
                  estimate_tokens((active \o obsolete)[i].level_1)])
    + SumTokens([i \in DOMAIN ns |-> estimate_tokens(ns[i].content)])

RECURSIVE _count_subtree_tokens(_, _)
_count_subtree_tokens(list, ns) ==
    SumTokens([i \in DOMAIN list |->
                  estimate_tokens(list[i].content)
                  + _count_subtree_tokens(children_map(ns, list[i].id), ns)])

\* The counter keeps the newest children only and forgets the accessed ones.
counted_children_NewestOnly(entry, ns, v2_config, clock) ==
    LET children == children_map(ns, entry.id)
    IN  IF v2_config # NoConfig /\ children # <<>>
               /\ Len(children) > v2_config.topNewestCount
        THEN LET nids == Ids(Slice(sorted_by_created(children),
                                   v2_config.topNewestCount))
             IN  SelectSeq(children, LAMBDA c : c.id \in nids)
        ELSE children

\* The children of entry that count_shown_tokens counts (lines 260-273).
counted_children(entry, ns, v2_config, clock) ==
    LET children == children_map(ns, entry.id)
    IN  IF v2_config # NoConfig /\ children # <<>>
               /\ Len(children) > v2_config.topNewestCount
        THEN LET nids == Ids(Slice(sorted_by_created(children),
                                   v2_config.topNewestCount))
                 aids == Ids(Slice(sorted_by_score(Accessed(children), clock),
                                   v2_config.topAccessCount))
             IN  SelectSeq(children, LAMBDA c : c.id \in nids \cup aids)
        ELSE children

count_shown_tokens(shown_entries, ns, v2_config, clock) ==
    SumTokens([i \in DOMAIN shown_entries |->
                  estimate_tokens(shown_entries[i].level_1)
                  + _count_subtree_tokens(
                        counted_children(shown_entries[i], ns, v2_config, clock),
                        ns)])

(***************************************************************************)
(* add_node_to_tree, add_entry_to_tree                                     *)
(*                                                                         *)
(* A tree node of the screen is [kind, id, kids]: kind "entry" for a       *)
(* record, "node" for a memory node, "more" for the leaf                   *)
(* "[+hidden more -> id]".                                                 *)
(***************************************************************************)
RECURSIVE add_node_to_tree(_, _)

\* Only the first child of a node is rendered.
add_node_to_tree_FirstChild(node, ns) ==
    LET children == Slice(children_map(ns, node.id), 1)
    IN  [kind |-> "node", id |-> node.id,
         kids |-> [i \in DOMAIN children |-> add_node_to_tree(children[i], ns)]]

add_node_to_tree(node, ns) ==
    LET children == children_map(ns, node.id)
    IN  [kind |-> "node", id |-> node.id,
         kids |-> [i \in DOMAIN children |-> add_node_to_tree(children[i], ns)]]

entry_label(entry, mode) ==
    [id |-> entry.id,
     favorite |-> entry.favorite,
     promoted |-> IF "promoted" \in DOMAIN entry THEN entry.promoted ELSE FALSE,
     obsolete |-> entry.obsolete,
     compact |-> mode]

\* Only the newest children are kept: the most accessed ones are forgotten.
cap_children_NewestOnly(children, v2_config, clock) ==
    IF v2_config # NoConfig /\ children # <<>>
           /\ Len(children) > v2_config.topNewestCount
    THEN LET nids == Ids(Slice(sorted_by_created(children),
                               v2_config.topNewestCount))
             selected == SelectSeq(children, LAMBDA c : c.id \in nids)
         IN  [children |-> selected, hidden |-> Len(children) - Len(selected)]
    ELSE [children |-> children, hidden |-> 0]

\* The capping of a record's direct children (lines 346-363 of hmem.py).
cap_children(children, v2_config, clock) ==
    IF v2_config # NoConfig /\ children # <<>>
           /\ Len(children) > v2_config.topNewestCount
    THEN LET nids == Ids(Slice(sorted_by_created(children),
                               v2_config.topNewestCount))
             aids == Ids(Slice(sorted_by_score(Accessed(children), clock),
                               v2_config.topAccessCount))
             selected == SelectSeq(children, LAMBDA c : c.id \in nids \cup aids)
         IN  [children |-> selected, hidden |-> Len(children) - Len(selected)]
    ELSE [children |-> children, hidden |-> 0]

add_entry_to_tree(entry, ns, mode, v2_config, clock) ==
    LET capped == cap_children(children_map(ns, entry.id), v2_config, clock)
        children == capped.children
    IN  [kind |-> "entry", id |-> entry.id, label |-> entry_label(entry, mode),
         kids |->
            IF children # <<>>
            THEN [i \in DOMAIN children |-> add_node_to_tree(children[i], ns)]
                 \o (IF capped.hidden > 0
                     THEN <<[kind |-> "more", id |-> entry.id,
                             hidden |-> capped.hidden, kids |-> <<>>]>>
                     ELSE <<>>)
            ELSE <<>>]

(***************************************************************************)
(* MemoryScreen: _build_full_tree, _build_v2_tree, rebuild_tree            *)
(***************************************************************************)
FULL_PROMOTED == 5

WithPromoted(e, flag) ==
    [k \in DOMAIN e \cup {"promoted"} |-> IF k = "promoted" THEN flag ELSE e[k]]

\* groups[prefix], for the prefixes in sorted order.
Groups(entries) ==
    LET ps == SelectSeq(Prefixes, LAMBDA p : p \in PrefixesOf(entries))
    IN  [g \in DOMAIN ps |-> by_prefix(entries, ps[g])]

_build_full_tree(active, obsolete, ns, clock) ==
    LET promoted_ids ==
            Ids(Slice(sorted_by_score(Accessed(active), clock), FULL_PROMOTED))
        marked == [i \in DOMAIN active |->
                      WithPromoted(active[i], active[i].id \in promoted_ids)]
        groups == Groups(marked)
    IN  [mode |-> "full",
         total |-> Len(active),
         shown |-> Len(active),
         hidden_obsolete |-> Len(obsolete),
         total_tok |-> count_all_tokens(active, obsolete, ns),
         shown_tok |-> count_all_tokens(active, obsolete, ns),
         groups |-> [g \in DOMAIN groups |->
                        [prefix |-> groups[g][1].prefix,
                         total |-> Len(groups[g]),
                         entries |-> [i \in DOMAIN groups[g] |->
                             add_entry_to_tree(groups[g][i], ns, FALSE,
                                               NoConfig, clock)]]],
         obsolete |-> [i \in DOMAIN obsolete |->
                          add_entry_to_tree(obsolete[i], ns, FALSE, NoConfig, clock)]]

_build_v2_tree(active, obsolete, ns, v2_config, clock) ==
    LET selection == compute_v2_selection(active, obsolete, v2_config, clock)
        marked == [i \in DOMAIN active |->
                      WithPromoted(active[i],
                                   active[i].id \in selection.promoted_ids)]
        v2_active == SelectSeq(marked, LAMBDA e : e.id \in selection.expanded_ids)
        visible_obsolete ==
            [i \in DOMAIN selection.visible_obsolete |->
                WithPromoted(selection.visible_obsolete[i], FALSE)]
        groups == Groups(v2_active)
    IN  [mode |-> "v2",
         total |-> Len(active) + Len(obsolete),
         shown |-> Len(v2_active) + Len(visible_obsolete),
         hidden_obsolete |-> Len(obsolete) - Len(visible_obsolete),
         total_tok |-> count_all_tokens(active, obsolete, ns),
         shown_tok |-> count_shown_tokens(v2_active \o selection.visible_obsolete,
                                          ns, v2_config, clock),
         groups |-> [g \in DOMAIN groups |->
                        [prefix |-> groups[g][1].prefix,
                         total |-> Len(by_prefix(active, groups[g][1].prefix)),
                         entries |-> [i \in DOMAIN groups[g] |->
                             add_entry_to_tree(groups[g][i], ns, TRUE,
                                               v2_config, clock)]]],
         obsolete |-> [i \in DOMAIN visible_obsolete |->
                          add_entry_to_tree(visible_obsolete[i], ns, TRUE,
                                            v2_config, clock)]]

EmptyView ==
    [mode |-> "empty", total |-> 0, shown |-> 0, hidden_obsolete |-> 0,
     total_tok |-> 0, shown_tok |-> 0, groups |-> <<>>, obsolete |-> <<>>]

\* The empty store is not told apart: a tree is built for it as for any other.
rebuild_tree_NoEmptyCheck(rows, ns, mode, ov, clock) ==
    IF mode
    THEN _build_v2_tree(Active(rows), Obsolete(rows), ns, load_v2_config(ov), clock)
    ELSE _build_full_tree(Active(rows), Obsolete(rows), ns, clock)

rebuild_tree(rows, ns, mode, ov, clock) ==
    LET active == Active(rows)
        obsolete == Obsolete(rows)
    IN  IF active = <<>> /\ obsolete = <<>> THEN EmptyView
        ELSE IF mode
             THEN _build_v2_tree(active, obsolete, ns, load_v2_config(ov), clock)
             ELSE _build_full_tree(active, obsolete, ns, clock)

(***************************************************************************)
(* The snapshots and configurations the model draws from                   *)
(***************************************************************************)
RowAttrs ==
    [prefix : Range(Prefixes), created_at : Dates, access_count : AccessCounts,
     flags : Flags, level_1 : {4}]

\* ORDER BY prefix, seq: prefixes ascending; seq counts within the prefix.
MkRows(f) ==
    [i \in DOMAIN f |->
        [id |-> i,
         prefix |-> f[i].prefix,
         seq |-> Cardinality({j \in 1..i : f[j].prefix = f[i].prefix}),
         created_at |-> f[i].created_at,
         access_count |-> f[i].access_count,
         favorite |-> f[i].flags.favorite,
         obsolete |-> f[i].flags.obsolete,
         level_1 |-> f[i].level_1]]

\* Rows come ordered by prefix; the model keeps the second category to at
\* most one record (the categories are treated alike).
OrderedByPrefix(g) ==
    /\ \A i \in DOMAIN g : \A j \in DOMAIN g :
           i < j => PrefixRank(g[i].prefix) <= PrefixRank(g[j].prefix)
    /\ Cardinality({i \in DOMAIN g : g[i].prefix # Prefixes[1]}) <= 1

RowSeqs ==
    {MkRows(f) : f \in {g \in UNION {[1..n -> RowAttrs] : n \in 0..MaxRecords} :
                            OrderedByPrefix(g)}}

\* The bulkReadV2 object of hmem.config.json: absent, or one that sets the caps.
Overrides == {<<>>} \cup [ConfigKeys -> CapValues]

NodeAttrs == [created_at : Dates, access_count : AccessCounts, content : {4}]

\* Node i has id MaxRecords + i; seq counts the nodes in insertion order.
MkNodes(parent, f) ==
    [i \in DOMAIN f |->
        [id |-> MaxRecords + i,
         parent_id |-> parent[i],
         seq |-> i,
         created_at |-> f[i].created_at,
         access_count |-> f[i].access_count,
         content |-> f[i].content]]

\* The forests of n nodes: the parent of a node is a record or a node
\* inserted before it.
Forests(rows, n) ==
    {parent \in [1..n -> 1..(MaxRecords + n)] :
        \A i \in 1..n :
            parent[i] \in Ids(rows) \cup {MaxRecords + j : j \in 1..(i - 1)}}

NodeSeqs(rows) ==
    UNION {{MkNodes(parent, f) : parent \in Forests(rows, n), f \in [1..n -> NodeAttrs]} :
              n \in 0..MaxNodes}

\* One active record to hang the nodes under.
CapRows ==
    {MkRows(<<[prefix |-> Prefixes[1], created_at |-> 1, access_count |-> 0,
               flags |-> [favorite |-> FALSE, obsolete |-> FALSE],
               level_1 |-> 4]>>)}

CapOverrides ==
    {<<>>} \cup {ov \in [ConfigKeys -> CapValues] : ov.topObsoleteCount = 0}

\* The stores the screen is run on: one category, short trees.
MaxViewRecords == 2
MaxViewNodes == 2

ViewRowAttrs ==
    [prefix : {Prefixes[1]}, created_at : {1}, access_count : {0, 2},
     flags : {f \in Flags : ~f.favorite}, level_1 : {4}]

ViewRows ==
    {MkRows(f) : f \in UNION {[1..n -> ViewRowAttrs] : n \in 0..MaxViewRecords}}

ViewNodeAttrs == [created_at : {1}, access_count : {0, 2}, content : {8}]

ViewNodeSeqs(rows) ==
    UNION {{MkNodes(parent, f) : parent \in Forests(rows, n), f \in [1..n -> ViewNodeAttrs]} :
              n \in 0..MaxViewNodes}

(***************************************************************************)
(* Specification of the root-level selection                               *)
(***************************************************************************)
InitSel ==
    /\ records \in RowSeqs
    /\ nodes = <<>>
    /\ override \in Overrides
    /\ now = FirstDay
    /\ v2_mode = TRUE
    /\ sel = None
    /\ view = None

\* One call of compute_v2_selection on the loaded snapshot.
Select ==
    /\ sel' = [ran |-> TRUE, at |-> now] @@
              compute_v2_selection(Active(records), Obsolete(records),
                                   load_v2_config(override), now)
    /\ UNCHANGED <<records, nodes, override, now, v2_mode, view>>

\* Time passes.
Tick ==
    /\ now + 1 \in Clock
    /\ now' = now + 1
    /\ UNCHANGED <<records, nodes, override, v2_mode, sel, view>>

\* The selection at one reading of the clock.
NextSel == Select

SpecSel == InitSel /\ [][NextSel]_vars

\* The selection run again and again while the clock advances.
NextClock == Select \/ Tick

SpecClock == InitSel /\ [][NextClock]_vars

(***************************************************************************)
(* Properties of the root-level selection                                  *)
(***************************************************************************)
Cfg == load_v2_config(override)

ActiveIn(p) == SelectSeq(Active(records), LAMBDA e : e.prefix = p)

NoDuplicates(s) == Cardinality(Ids(s)) = Len(s)

\* C2: the selection returns visible ids that are ids of active records,
\* promoted ids that are all visible, and at most topObsolete obsolete records.
C2_SelectionBounds ==
    sel.ran =>
        /\ sel.expanded_ids \subseteq Ids(Active(records))
        /\ sel.promoted_ids \subseteq sel.expanded_ids
        /\ Len(sel.visible_obsolete) <= Cfg.topObsoleteCount

\* A promoted record, and an obsolete list that fills its cap.
C2_Witness ==
    /\ sel.ran
    /\ sel.promoted_ids # {}
    /\ Cfg.topNewestCount = 0
    /\ Len(sel.visible_obsolete) = 1
    /\ Cfg.topObsoleteCount = 1

\* C3: every active favorite is visible, whatever the caps and however many
\* records its category holds.
C3_FavoritesVisible ==
    sel.ran =>
        \A i \in DOMAIN records :
            (records[i].favorite /\ ~records[i].obsolete)
                => records[i].id \in sel.expanded_ids

C3_Witness ==
    /\ sel.ran
    /\ Cfg.topNewestCount = 0
    /\ Cfg.topAccessCount = 0
    /\ \E i \in DOMAIN records :
           /\ records[i].favorite
           /\ ~records[i].obsolete
           /\ Len(ActiveIn(records[i].prefix)) > 1
           /\ sel.expanded_ids = {records[i].id}

\* C4: each channel selects exactly min(available, cap) distinct items, ties
\* or not; a cap of 0 selects nothing.
C4_ChannelCounts ==
    sel.ran =>
        /\ \A p \in Range(Prefixes) :
               /\ Cardinality(Ids(newest(ActiveIn(p), Cfg)))
                      = Min(Len(ActiveIn(p)), Cfg.topNewestCount)
               /\ Cardinality(sel.promoted_ids \cap Ids(ActiveIn(p)))
                      = Min(Len(Accessed(ActiveIn(p))), Cfg.topAccessCount)
        /\ Len(sel.visible_obsolete)
               = Min(Len(Obsolete(records)), Cfg.topObsoleteCount)
        /\ NoDuplicates(sel.visible_obsolete)
        /\ Range(sel.visible_obsolete) \subseteq Range(Obsolete(records))

\* Two records of one category tie on both sort keys and the caps cut between them.
C4_Witness ==
    /\ sel.ran
    /\ Cfg.topNewestCount = 1
    /\ Cfg.topAccessCount = 1
    /\ \E p \in Range(Prefixes) :
           /\ Len(ActiveIn(p)) = 2
           /\ ActiveIn(p)[1].created_at = ActiveIn(p)[2].created_at
           /\ ActiveIn(p)[1].access_count = ActiveIn(p)[2].access_count
           /\ ActiveIn(p)[1].access_count > 0
           /\ Cardinality(sel.promoted_ids) = 1

WithNewest(cfg, n) == [cfg EXCEPT !.topNewestCount = n]

VisibleWith(n) ==
    compute_v2_selection(Active(records), Obsolete(records),
                         WithNewest(Cfg, n), sel.at).expanded_ids

\* C5: with the snapshot and the other caps fixed, a larger topNewest never
\* shrinks the visible ids.
C5_MonotoneNewest ==
    sel.ran =>
        \A n \in 0..MaxRecords :
            LET other == VisibleWith(n)
            IN  /\ n <= Cfg.topNewestCount => other \subseteq sel.expanded_ids
                /\ n >= Cfg.topNewestCount => sel.expanded_ids \subseteq other

C5_Witness ==
    /\ sel.ran
    /\ Cfg.topNewestCount = 1
    /\ VisibleWith(0) # sel.expanded_ids
    /\ VisibleWith(2) # sel.expanded_ids

\* C6: two runs of the selection on the same snapshot and configuration
\* return the same visible ids, promoted ids and visible obsolete list, also
\* when the clock has moved between the runs.
C6_Idempotent ==
    [][(sel.ran /\ sel'.ran) =>
           /\ sel'.expanded_ids = sel.expanded_ids
           /\ sel'.promoted_ids = sel.promoted_ids
           /\ sel'.visible_obsolete = sel.visible_obsolete]_vars

\* C7: the visible and promoted ids of a category are those the selection
\* returns when the snapshot holds that category alone.
Alone(p) == compute_v2_selection(ActiveIn(p), <<>>, Cfg, sel.at)

C7_CategoryIsolation ==
    sel.ran =>
        \A p \in Range(Prefixes) :
            LET own == Ids(ActiveIn(p))
                alone == Alone(p)
            IN  /\ sel.expanded_ids \cap own = alone.expanded_ids
                /\ sel.promoted_ids \cap own = alone.promoted_ids

\* Two categories, one cap each, and the newer and more accessed record in one.
C7_Witness ==
    /\ sel.ran
    /\ Cfg.topNewestCount = 1
    /\ Cfg.topAccessCount = 1
    /\ Len(ActiveIn("L")) = 1
    /\ Len(ActiveIn("P")) = 1
    /\ ActiveIn("L")[1].created_at < ActiveIn("P")[1].created_at
    /\ ActiveIn("L")[1].access_count > 0
    /\ ActiveIn("P")[1].access_count > 0
    /\ sel.expanded_ids = Ids(Active(records))
    /\ sel.promoted_ids = Ids(Active(records))

(***************************************************************************)
(* Specification of the capping of a record's children                     *)
(***************************************************************************)
InitCap ==
    /\ records \in CapRows
    /\ nodes \in NodeSeqs(records)
    /\ override \in CapOverrides
    /\ now = FirstDay
    /\ v2_mode = TRUE
    /\ sel = None
    /\ view = None

\* One call of add_entry_to_tree for the record, as _build_v2_tree makes it.
AddEntry ==
    /\ view' = [ran |-> TRUE, at |-> now,
                tree |-> add_entry_to_tree(records[1], nodes, TRUE,
                                           load_v2_config(override), now)]
    /\ UNCHANGED <<records, nodes, override, now, v2_mode, sel>>

NextCap == AddEntry

SpecCap == InitCap /\ [][NextCap]_vars

(***************************************************************************)
(* Properties of the capping                                               *)
(***************************************************************************)
ChildrenOf(id) == children_map(nodes, id)

\* The ids of the memory nodes rendered directly under tree node t.
KidIds(t) == {t.kids[i].id : i \in {j \in DOMAIN t.kids : t.kids[j].kind = "node"}}

\* The number of "[+n more -> id]" leaves directly under tree node t.
Markers(t, id) ==
    Cardinality({i \in DOMAIN t.kids : t.kids[i].kind = "more" /\ t.kids[i].id = id})

NewerThan(a, b) == a.created_at > b.created_at

ScoresAbove(a, b, clock) ==
    ScoreGT(weighted_access_score(a, clock), weighted_access_score(b, clock))

\* The sets of n newest items of pool: none left out is newer than one taken.
TopNewest(pool, n) ==
    {S \in SUBSET pool :
        /\ Cardinality(S) = Min(n, Cardinality(pool))
        /\ \A a \in S : \A b \in pool \ S : ~NewerThan(b, a)}

\* The sets of n highest scoring items of pool with access_count > 0.
TopAccessed(pool, n, clock) ==
    LET acc == {c \in pool : c.access_count > 0}
    IN  {S \in SUBSET acc :
            /\ Cardinality(S) = Min(n, Cardinality(acc))
            /\ \A a \in S : \A b \in acc \ S : ~ScoresAbove(b, a, clock)}

\* The ids of the unions of n newest and m most accessed items of pool.
CapUnions(pool, n, m, clock) ==
    {{c.id : c \in Sn \cup Sa} :
        Sn \in TopNewest(pool, n), Sa \in TopAccessed(pool, m, clock)}

\* C8: with C <= topNewest children all are visible and hiddenCount = 0;
\* with C > topNewest the visible children are the topNewest newest and the
\* topAccessed best scoring accessed ones, and hiddenCount = C - |visible| >= 0.
C8_ChildCapping ==
    view.ran =>
        LET C == ChildrenOf(records[1].id)
            hidden == cap_children(C, Cfg, view.at).hidden
        IN  IF Len(C) <= Cfg.topNewestCount
            THEN KidIds(view.tree) = Ids(C) /\ hidden = 0
            ELSE /\ KidIds(view.tree)
                        \in CapUnions(Range(C), Cfg.topNewestCount,
                                      Cfg.topAccessCount, view.at)
                 /\ hidden = Len(C) - Cardinality(KidIds(view.tree))
                 /\ hidden >= 0

\* Three children: the newest, another one that is the most accessed, and a
\* third that is hidden.
C8_Witness ==
    /\ view.ran
    /\ Cfg.topNewestCount = 1
    /\ Cfg.topAccessCount = 1
    /\ Len(ChildrenOf(records[1].id)) = 3
    /\ Cardinality(KidIds(view.tree)) = 2
    /\ Markers(view.tree, records[1].id) = 1

RECURSIVE Rendered(_)
Rendered(t) == {t} \cup UNION {Rendered(t.kids[i]) : i \in DOMAIN t.kids}

C10_MarkerIffHidden ==
    view.ran =>
        LET hidden == cap_children(ChildrenOf(records[1].id), Cfg, view.at).hidden
        IN  Markers(view.tree, records[1].id) = (IF hidden > 0 THEN 1 ELSE 0)

(***************************************************************************)
(* Specification of the screen                                             *)
(***************************************************************************)
InitView ==
    /\ records \in ViewRows
    /\ nodes \in ViewNodeSeqs(records)
    /\ override \in Overrides
    /\ now = FirstDay
    /\ v2_mode = FALSE
    /\ sel = None
    /\ view = None

\* on_mount: the first rebuild_tree, in the full view.
Mount ==
    /\ ~view.ran
    /\ view' = [ran |-> TRUE, at |-> now] @@
               rebuild_tree(records, nodes, v2_mode, override, now)
    /\ UNCHANGED <<records, nodes, override, now, v2_mode, sel>>

\* action_toggle_v2: key r.
ToggleV2 ==
    /\ view.ran
    /\ v2_mode' = ~v2_mode
    /\ view' = [ran |-> TRUE, at |-> now] @@
               rebuild_tree(records, nodes, ~v2_mode, override, now)
    /\ UNCHANGED <<records, nodes, override, now, sel>>

NextView == Mount \/ ToggleV2

SpecView == InitView /\ [][NextView]_vars

(***************************************************************************)
(* Properties of the token counters                                        *)
(***************************************************************************)
\* C1: in the budgeted view the tokens shown never exceed the tokens of the
\* whole snapshot.
C1_ShownAtMostTotal ==
    (view.ran /\ view.mode = "v2") => view.shown_tok <= view.total_tok

\* A budgeted view that hides a record and caps the children of another.
C1_Witness ==
    /\ view.ran
    /\ view.mode = "v2"
    /\ view.shown < view.total
    /\ 0 < view.shown_tok
    /\ view.shown_tok < view.total_tok
    /\ \E g \in DOMAIN view.groups : \E i \in DOMAIN view.groups[g].entries :
           /\ Markers(view.groups[g].entries[i], view.groups[g].entries[i].id) = 1
           /\ KidIds(view.groups[g].entries[i]) # {}

(***************************************************************************)
(* Properties of the ranking inside the channels                           *)
(***************************************************************************)
\* C11: in the newest channel, of two active records of one category with
\* equal created_at the one with the higher sequence number ranks first: with
\* the accessed channel closed (topAccessCount = 0) and neither a favorite,
\* the lower one is visible only if the higher one is.
C11_TieHigherSeq ==
    (sel.ran /\ Cfg.topAccessCount = 0) =>
        \A p \in Range(Prefixes) :
            \A a \in Range(ActiveIn(p)) : \A b \in Range(ActiveIn(p)) :
                (/\ a.created_at = b.created_at
                 /\ a.seq < b.seq
                 /\ ~a.favorite /\ ~b.favorite
                 /\ a.id \in sel.expanded_ids) => b.id \in sel.expanded_ids

\* Stores in which two scores can be equal while the access counts differ:
\* 2 accesses at age 0 score 2 / log2(2), 4 accesses at age 2 score
\* 4 / log2(4).
TieRowAttrs ==
    [prefix : {Prefixes[1]}, created_at : {1, 3}, access_count : {0, 2, 4},
     flags : Flags, level_1 : {4}]

TieRows ==
    {MkRows(f) : f \in UNION {[1..n -> TieRowAttrs] : n \in 0..MaxRecords}}

LastDay == CHOOSE d \in Clock : \A e \in Clock : e <= d

InitTie ==
    /\ records \in TieRows
    /\ nodes = <<>>
    /\ override \in Overrides
    /\ now = LastDay
    /\ v2_mode = FALSE
    /\ sel = None
    /\ view = None

SpecTie == InitTie /\ [][NextSel]_vars

SameScore(a, b, clock) ==
    /\ ~ScoreGT(weighted_access_score(a, clock), weighted_access_score(b, clock))
    /\ ~ScoreGT(weighted_access_score(b, clock), weighted_access_score(a, clock))

\* C12: in the accessed channel, of two accessed active records of one
\* category with equal score the one with the higher access_count, or with
\* equal access_count the smaller id, ranks first: the other is promoted
\* only if it is.
C12_TieHigherAccessCount ==
    sel.ran =>
        \A p \in Range(Prefixes) :
            \A a \in Range(ActiveIn(p)) : \A b \in Range(ActiveIn(p)) :
                (/\ a.access_count > 0 /\ b.access_count > 0
                 /\ SameScore(a, b, sel.at)
                 /\ \/ a.access_count > b.access_count
                    \/ a.access_count = b.access_count /\ a.id < b.id
                 /\ b.id \in sel.promoted_ids) => a.id \in sel.promoted_ids

(***************************************************************************)
(* Specification of the scoring function alone                             *)
(***************************************************************************)
\* One record with any kind of timestamp: unparseable, missing, past, future.
ScoreRowAttrs ==
    [prefix : Range(Prefixes), created_at : {-1, 0, 1, 2, 3},
     access_count : {0, 2, 3, 4}, flags : Flags, level_1 : {4}]

InitScore ==
    /\ records \in {MkRows(<<f>>) : f \in ScoreRowAttrs}
    /\ nodes = <<>>
    /\ override = <<>>
    /\ now \in Clock
    /\ v2_mode = FALSE
    /\ sel = None
    /\ view = None

\* One call weighted_access_score(entry).
Score ==
    /\ ~sel.ran
    /\ sel' = [ran |-> TRUE, at |-> now,
               score |-> weighted_access_score(records[1], now)]
    /\ UNCHANGED <<records, nodes, override, now, v2_mode, view>>

NextScore == Score

SpecScore == InitScore /\ [][NextScore]_vars

\* The two pairs stand for the same number num / log2(base).
SameValue(s1, s2) == ~ScoreGT(s1, s2) /\ ~ScoreGT(s2, s1)

\* C13: the score is 0 for access_count 0; the raw access_count for an
\* accessed record whose timestamp is missing or unparseable; and
\* access_count / log2(age_in_days + 2) otherwise.
C13_ScoreFallbacks ==
    sel.ran =>
        LET ac == records[1].access_count
            created == records[1].created_at
        IN  /\ ac = 0 => SameValue(sel.score, [num |-> 0, base |-> 2])
            /\ (ac > 0 /\ created <= 0) =>
                   SameValue(sel.score, [num |-> ac, base |-> 2])
            /\ (ac > 0 /\ created > 0) =>
                   SameValue(sel.score,
                             [num |-> ac, base |-> Max(sel.at - created, 0) + 2])

(***************************************************************************)
(* The screen over stores that hold texts shorter than one token           *)
(***************************************************************************)
ShortRowAttrs ==
    [prefix : {Prefixes[1]}, created_at : {1}, access_count : {0},
     flags : {f \in Flags : ~f.favorite}, level_1 : {3, 4}]

ShortRows ==
    {MkRows(f) : f \in UNION {[1..n -> ShortRowAttrs] : n \in 0..MaxViewRecords}}

ShortNodeAttrs == [created_at : {1}, access_count : {0}, content : {3, 8}]

ShortNodeSeqs(rows) ==
    UNION {{MkNodes(parent, f) : parent \in Forests(rows, n), f \in [1..n -> ShortNodeAttrs]} :
              n \in 0..MaxViewNodes}

ShortOverrides ==
    {<<>>} \cup {ov \in [ConfigKeys -> CapValues] : ov.topAccessCount = 0}

InitShort ==
    /\ records \in ShortRows
    /\ nodes \in ShortNodeSeqs(records)
    /\ override \in ShortOverrides
    /\ now = FirstDay
    /\ v2_mode = FALSE
    /\ sel = None
    /\ view = None

SpecShort == InitShort /\ [][NextView]_vars

\* The record trees of a view: the entries of its groups and its obsolete ones.
ViewTrees(v) ==
    UNION {Range(v.groups[g].entries) : g \in DOMAIN v.groups} \cup Range(v.obsolete)

\* The ids of the records and memory nodes a view renders.
ShownIds(v) ==
    {t.id : t \in {u \in UNION {Rendered(r) : r \in ViewTrees(v)} : u.kind # "more"}}

\* The lengths of the texts of the records and nodes a view leaves out.
HiddenTexts(v) ==
    {records[i].level_1 : i \in {j \in DOMAIN records : records[j].id \notin ShownIds(v)}}
    \cup {nodes[i].content : i \in {j \in DOMAIN nodes : nodes[j].id \notin ShownIds(v)}}

\* C14 as claimed: in the budgeted view, whenever a record or a node is left
\* out, the tokens shown are strictly fewer than the total.
C14_StrictWhenHidden ==
    (view.ran /\ view.mode = "v2") =>
        (HiddenTexts(view) # {} => view.shown_tok < view.total_tok)

\* C14 as amended: in the budgeted view the tokens shown are strictly fewer
\* than the total exactly when a record or node left out has a text of at
\* least TOKEN_CHARS characters; otherwise the two counts are equal.
C14_StrictIffHiddenToken ==
    (view.ran /\ view.mode = "v2") =>
        /\ view.shown_tok <= view.total_tok
        /\ view.shown_tok < view.total_tok
               <=> (\E text \in HiddenTexts(view) : text >= TOKEN_CHARS)

\* A budgeted view that leaves out texts, all shorter than one token, and
\* still shows every token of the store.
C14_Witness ==
    /\ view.ran
    /\ view.mode = "v2"
    /\ HiddenTexts(view) # {}
    /\ \A text \in HiddenTexts(view) : text < TOKEN_CHARS
    /\ view.shown_tok = view.total_tok
    /\ view.total_tok > 0

(***************************************************************************)
(* The screen over stores whose nodes may name a parent that does not      *)
(* exist                                                                   *)
(***************************************************************************)
\* An id that no record and no node has.
NoSuchId == 0

\* As Forests, but a node may also name NoSuchId as its parent.
BrokenForests(rows, n) ==
    {parent \in [1..n -> 0..(MaxRecords + n)] :
        \A i \in 1..n :
            parent[i] \in Ids(rows) \cup {MaxRecords + j : j \in 1..(i - 1)}
                          \cup {NoSuchId}}

BrokenNodeSeqs(rows) ==
    UNION {{MkNodes(parent, f) : parent \in BrokenForests(rows, n),
                                 f \in [1..n -> ViewNodeAttrs]} :
              n \in 0..MaxViewNodes}

InitBroken ==
    /\ records \in ViewRows
    /\ nodes \in BrokenNodeSeqs(records)
    /\ override \in Overrides
    /\ now = FirstDay
    /\ v2_mode = FALSE
    /\ sel = None
    /\ view = None

SpecBroken == InitBroken /\ [][NextView]_vars

\* Some node names a parent that is neither a record nor a node.
Dangling ==
    \E i \in DOMAIN nodes : nodes[i].parent_id \notin Ids(records) \cup Ids(nodes)

\* C15: a snapshot with a node whose parent does not exist is reported as a
\* failure of its own: the screen shows neither a normal view (full or
\* budgeted) nor the empty view.
C15_DanglingParentReported ==
    (view.ran /\ Dangling) => view.mode \notin {"full", "v2", "empty"}

(***************************************************************************)
(* Properties of the screen                                                *)
(***************************************************************************)
\* C16: for the empty store (no record, no node) every rebuild yields the
\* explicit empty view with all four counters 0, the selection returns three
\* empty collections and both token counters return 0.
C16_EmptyStore ==
    (view.ran /\ records = <<>> /\ nodes = <<>>) =>
        /\ view.mode = "empty"
        /\ view.shown = 0 /\ view.total = 0
        /\ view.shown_tok = 0 /\ view.total_tok = 0
        /\ view.groups = <<>> /\ view.obsolete = <<>>
        /\ compute_v2_selection(Active(records), Obsolete(records), Cfg, view.at)
               = [expanded_ids |-> {}, promoted_ids |-> {}, visible_obsolete |-> <<>>]
        /\ count_all_tokens(Active(records), Obsolete(records), nodes) = 0
        /\ count_shown_tokens(<<>>, nodes, Cfg, view.at) = 0

\* The empty store on the screen after a switch to the budgeted view.
C16_Witness ==
    /\ view.ran
    /\ records = <<>>
    /\ nodes = <<>>
    /\ v2_mode
    /\ view.mode = "empty"

\* The screen while the clock advances between the key presses, over stores
\* of accessed records of different ages.
ClockRowAttrs ==
    [prefix : {Prefixes[1]}, created_at : Dates, access_count : {2, 3},
     flags : {f \in Flags : ~f.favorite /\ ~f.obsolete}, level_1 : {4}]

ClockRows ==
    {MkRows(f) : f \in UNION {[1..n -> ClockRowAttrs] : n \in 0..MaxViewRecords}}

InitViewClock ==
    /\ records \in ClockRows
    /\ nodes = <<>>
    /\ override \in Overrides
    /\ now = FirstDay
    /\ v2_mode = FALSE
    /\ sel = None
    /\ view = None

NextViewClock == Mount \/ ToggleV2 \/ Tick

SpecViewClock == InitViewClock /\ [][NextViewClock]_vars

\* What rebuild_tree put on the screen, without the stamp of the rebuild.
ViewOf(v) == [k \in DOMAIN v \ {"ran", "at"} |-> v[k]]

\* C17: on an unchanged store the view a toggle builds for a mode depends
\* only on snapshot, configuration and mode: it is the view that mode had
\* when the screen was last rebuilt, so that toggling twice gives back
\* exactly the same view.
C17_ToggleDeterministic ==
    [][(view.ran /\ view'.ran /\ v2_mode' # v2_mode) =>
           ViewOf(view') = rebuild_tree(records, nodes, v2_mode', override, view.at)]_vars

(***************************************************************************)
(* The screen over stores with obsolete records in several categories      *)
(***************************************************************************)
ObsRowAttrs ==
    [prefix : Range(Prefixes), created_at : {1}, access_count : {2, 3},
     flags : {f \in Flags : ~f.favorite}, level_1 : {4}]

ObsRows ==
    {MkRows(f) : f \in {g \in UNION {[1..n -> ObsRowAttrs] : n \in 0..MaxViewRecords} :
                            \A i \in DOMAIN g : \A j \in DOMAIN g :
                                i < j => PrefixRank(g[i].prefix) <= PrefixRank(g[j].prefix)}}

ObsNodeAttrs == [created_at : {1}, access_count : {0}, content : {8}]

ObsNodeSeqs(rows) ==
    UNION {{MkNodes(parent, f) : parent \in Forests(rows, n), f \in [1..n -> ObsNodeAttrs]} :
              n \in 0..MaxViewNodes}

InitObs ==
    /\ records \in ObsRows
    /\ nodes \in ObsNodeSeqs(records)
    /\ override \in ShortOverrides
    /\ now = FirstDay
    /\ v2_mode = FALSE
    /\ sel = None
    /\ view = None

SpecObs == InitObs /\ [][NextView]_vars

\* The id of the record at the root of the tree that holds node or record id.
RECURSIVE RootOf(_)
RootOf(id) ==
    IF id \in Ids(records) THEN id
    ELSE RootOf(nodes[CHOOSE i \in DOMAIN nodes : nodes[i].id = id].parent_id)

\* The ids of the obsolete records a view shows.
ShownObsolete(v) == {v.obsolete[i].id : i \in DOMAIN v.obsolete}

\* The ids of the obsolete records a view leaves out.
HiddenObsolete(v) == Ids(Obsolete(records)) \ ShownObsolete(v)

\* C18: the budgeted view shows exactly min(topObsolete, all) obsolete
\* records, taken across the categories, none of those left out scoring
\* strictly above one shown; a record left out is not counted as shown, and
\* with its whole subtree it adds nothing to the tokens shown: the counters
\* are those of the store without these records and subtrees.
C18_TopObsolete ==
    (view.ran /\ view.mode = "v2") =>
        LET obs == Obsolete(records)
            hidden == HiddenObsolete(view)
            rest == rebuild_tree(
                        SelectSeq(records, LAMBDA r : r.id \notin hidden),
                        SelectSeq(nodes, LAMBDA n : RootOf(n.id) \notin hidden),
                        TRUE, override, view.at)
        IN  /\ Len(view.obsolete) = Min(Cfg.topObsoleteCount, Len(obs))
            /\ Cardinality(ShownObsolete(view)) = Len(view.obsolete)
            /\ ShownObsolete(view) \subseteq Ids(obs)
            /\ \A a \in Range(obs) : \A b \in Range(obs) :
                   (a.id \in hidden /\ b.id \notin hidden) =>
                       ~ScoreGT(weighted_access_score(a, view.at),
                                weighted_access_score(b, view.at))
            /\ view.shown = Cardinality(ShownIds(view) \cap Ids(records))
            /\ \A i \in DOMAIN nodes :
                   RootOf(nodes[i].id) \in hidden => nodes[i].id \notin ShownIds(view)
            /\ hidden \cap ShownIds(view) = {}
            /\ rest.shown = view.shown
            /\ rest.shown_tok = view.shown_tok

\* Two obsolete records in two categories and room for one: the one shown
\* is the second in store order, the one left out has a node below it.
C18_Witness ==
    /\ view.ran
    /\ view.mode = "v2"
    /\ Cfg.topObsoleteCount = 1
    /\ Len(Obsolete(records)) = 2
    /\ Obsolete(records)[1].prefix # Obsolete(records)[2].prefix
    /\ ShownObsolete(view) = {Obsolete(records)[2].id}
    /\ \E i \in DOMAIN nodes : RootOf(nodes[i].id) \in HiddenObsolete(view)
    /\ view.shown_tok > 0

(***************************************************************************)
(* The selection under any bulkReadV2 object the configuration file may    *)
(* hold                                                                    *)
(***************************************************************************)
AnyCapValues == {-1, 0, 1}

AnyOverrides == {<<>>} \cup [ConfigKeys -> AnyCapValues]

InitCfg ==
    /\ records \in RowSeqs
    /\ nodes = <<>>
    /\ override \in AnyOverrides
    /\ now = FirstDay
    /\ v2_mode = FALSE
    /\ sel = None
    /\ view = None

SpecCfg == InitCfg /\ [][NextSel]_vars

\* C19: a negative cap in the configuration file is rejected by
\* load_v2_config, so whenever compute_v2_selection has run, the caps it
\* was given are all non-negative.
C19_CapsValidated ==
    sel.ran => \A k \in ConfigKeys : load_v2_config(override)[k] >= 0

(***************************************************************************)
(* The only ways into the selection                                        *)
(***************************************************************************)
\* C20: a visible active record is among the topNewest newest of its
\* category, or among the topAccessed highest scoring accessed records of
\* its category, or a favorite; a promoted record is among the latter, so
\* it has access_count > 0.
C20_OnlyThreeWays ==
    sel.ran =>
        \A p \in Range(Prefixes) : \A r \in Range(ActiveIn(p)) :
            LET pool == Range(ActiveIn(p))
                inNewest == \E S \in TopNewest(pool, Cfg.topNewestCount) : r \in S
                inAccessed ==
                    \E S \in TopAccessed(pool, Cfg.topAccessCount, sel.at) : r \in S
            IN  /\ r.id \in sel.expanded_ids => (inNewest \/ inAccessed \/ r.favorite)
                /\ r.id \in sel.promoted_ids => (inAccessed /\ r.access_count > 0)
                /\ (r.access_count = 0 /\ ~r.favorite /\ ~inNewest)
                       => r.id \notin sel.expanded_ids

\* One category, caps of 1: the newer record is accessed and promoted, the
\* older one was never accessed, is no favorite and stays hidden.
C20_Witness ==
    /\ sel.ran
    /\ Cfg.topNewestCount = 1
    /\ Cfg.topAccessCount = 1
    /\ \E p \in Range(Prefixes) :
           /\ Len(ActiveIn(p)) = 2
           /\ ActiveIn(p)[1].created_at > ActiveIn(p)[2].created_at
           /\ ActiveIn(p)[1].access_count > 0
           /\ ActiveIn(p)[2].access_count = 0
           /\ ~ActiveIn(p)[2].favorite
           /\ ActiveIn(p)[1].id \in sel.promoted_ids
           /\ ActiveIn(p)[2].id \notin sel.expanded_ids

(***************************************************************************)
(* What is counted and what is rendered                                    *)
(***************************************************************************)
\* The ids of the memory nodes rendered anywhere under tree node t.
NodeIdsUnder(t) == {u.id : u \in {w \in Rendered(t) : w.kind = "node"}}

\* The ids of the nodes of list and of all the nodes below them.
RECURSIVE SubtreeIds(_)
SubtreeIds(list) ==
    UNION {{list[i].id} \cup SubtreeIds(children_map(nodes, list[i].id)) :
              i \in DOMAIN list}

\* The tokens of the records and nodes whose ids are in S.
TokensOf(S) ==
    LET rs == SelectSeq(records, LAMBDA r : r.id \in S)
        ns == SelectSeq(nodes, LAMBDA n : n.id \in S)
    IN  SumTokens([i \in DOMAIN rs |-> estimate_tokens(rs[i].level_1)])
        + SumTokens([i \in DOMAIN ns |-> estimate_tokens(ns[i].content)])

\* C21: in the budgeted view, under every shown record the nodes whose
\* tokens count_shown_tokens adds up are exactly the nodes add_entry_to_tree
\* renders, the count for the record is the token sum of the record and
\* these nodes, and the tokens shown are the token sum of exactly the
\* rendered records and nodes.
C21_CountedIsRendered ==
    (view.ran /\ view.mode = "v2") =>
        /\ \A t \in ViewTrees(view) :
               LET r == records[CHOOSE i \in DOMAIN records : records[i].id = t.id]
               IN  /\ SubtreeIds(counted_children(r, nodes, Cfg, view.at))
                          = NodeIdsUnder(t)
                   /\ count_shown_tokens(<<r>>, nodes, Cfg, view.at)
                          = TokensOf({r.id} \cup NodeIdsUnder(t))
        /\ view.shown_tok = TokensOf(ShownIds(view))

\* A shown record with two children, one rendered and one cut, counted for
\* more than its own text and for less than its whole subtree.
C21_Witness ==
    /\ view.ran
    /\ view.mode = "v2"
    /\ view.shown_tok < view.total_tok
    /\ \E t \in ViewTrees(view) :
           /\ Len(ChildrenOf(t.id)) = 2
           /\ Cardinality(KidIds(t)) = 1
           /\ Markers(t, t.id) = 1
           /\ TokensOf({t.id} \cup NodeIdsUnder(t)) > TokensOf({t.id})

====
